---- MODULE Spec2Model ----
(***************************************************************************)
(* HyperLogLog sketch of be/src/olap/hll.h.                                *)
(*                                                                         *)
(* A sketch is the record of the four private fields of class HyperLogLog. *)
(* A pointer field is a sequence of length at most one: << >> is nullptr   *)
(* and << b >> points to the heap buffer b.  The explicit buffer b is the  *)
(* sequence of its first _explicit_data_num slots (the slots the code has  *)
(* written); the register array is a function from the indexes of its      *)
(* non-zero registers to their values, every other register being zero.    *)
(* Hash values are drawn below 2^31, so that they are TLC integers; the    *)
(* program constants keep the values of the header.                        *)
(***************************************************************************)
EXTENDS Integers, Sequences, FiniteSets, TLC

\* ------------------------------------------------------------ constants
HLL_COLUMN_PRECISION == 14
\* the variant ZeroCountBitsOneMore forces bit 51 instead of bit 50
ZeroCountBitsOneMore == 64 - HLL_COLUMN_PRECISION + 1
HLL_ZERO_COUNT_BITS == 64 - HLL_COLUMN_PRECISION
\* the variant ExplicitCapOneLess upgrades one element early, the variant
\* ExplicitCapOneMore one element late
ExplicitCapOneLess == 160 - 1
ExplicitCapOneMore == 160 + 1
HLL_EXPLICIT_INT64_NUM == 160
HLL_EXPLICIT_INT64_NUM_DOUBLE == HLL_EXPLICIT_INT64_NUM * 2
HLL_SPARSE_THRESHOLD == 4096
\* the variant RegistersOneMore has one register more
RegistersOneMore == 16 * 1024 + 1
HLL_REGISTERS_COUNT == 16 * 1024
HLL_COLUMN_DEFAULT_LEN == HLL_REGISTERS_COUNT + 1
HLL_EMPTY_SIZE == 1

\* enum HllDataType; the variant SparseAboveFull reorders the persisted values
HLL_DATA_EMPTY == 0
HLL_DATA_EXPLICIT == 1
SparseAboveFull == HLL_DATA_EXPLICIT + 3
HLL_DATA_SPARSE == 2
HLL_DATA_FULL == 3

\* ------------------------------------------------------------ bounds
\* number of hash values the callers pass to update and to the constructor
NumHashes == 2
\* length of the stream of distinct hash values a built sketch is fed
StreamLen == 162
\* while both built sketches grow, the shorter one holds at most ShortLen
ShortLen == 4
\* number of orders in which a stream is fed
NumOrders == 3

\* ------------------------------------------------------------ the object
\* HyperLogLog() = default, with the default member initializers
EmptyHll ==
    [_type |-> HLL_DATA_EMPTY, _explicit_data_num |-> 0,
     _explicit_data |-> << >>, _registers |-> << >>]

\* F(v) with v evaluated first, as in a sequence of two statements (an
\* operator argument is otherwise evaluated only where it is first used,
\* which nests the evaluation of a loop as deep as the loop is long)
Then(v, F(_)) == IF {v} = {} THEN v ELSE F(v)

\* registers[i] of a register array
Reg(regs, i) == IF i \in DOMAIN regs THEN regs[i] ELSE 0

\* new uint8_t[HLL_REGISTERS_COUNT] filled with zero
ZeroRegisters == [i \in {} |-> 0]

\* registers[idx] = v
SetReg(regs, idx, v) ==
    IF v = 0 THEN [i \in (DOMAIN regs) \ {idx} |-> regs[i]]
    ELSE IF idx \in DOMAIN regs THEN [regs EXCEPT ![idx] = v]
    ELSE (idx :> v) @@ regs

\* explicit HyperLogLog(uint64_t hash_value)
HashCtor(hash_value) ==
    [_type |-> HLL_DATA_EXPLICIT, _explicit_data_num |-> 1,
     _explicit_data |-> << << hash_value >> >>, _registers |-> << >>]

\* void clear(); the variant leaves the type tag
ClearKeepsType(s) ==
    [s EXCEPT !._registers = << >>, !._explicit_data = << >>,
              !._explicit_data_num = 0]
clear(s) ==
    [s EXCEPT !._type = HLL_DATA_EMPTY, !._registers = << >>,
              !._explicit_data = << >>, !._explicit_data_num = 0]

\* HyperLogLog(const HyperLogLog& other); the variant copies nothing
CopyLeavesEmpty(other) == EmptyHll
CopyCtor(other) ==
    IF other._type = HLL_DATA_EXPLICIT
    THEN [_type |-> other._type,
          _explicit_data_num |-> other._explicit_data_num,
          _explicit_data |-> << SubSeq(other._explicit_data[1], 1,
                                       other._explicit_data_num) >>,
          _registers |-> << >>]
    ELSE IF other._type \in {HLL_DATA_SPARSE, HLL_DATA_FULL}
    THEN [_type |-> other._type, _explicit_data_num |-> 0,
          _explicit_data |-> << >>, _registers |-> << other._registers[1] >>]
    ELSE [_type |-> other._type, _explicit_data_num |-> 0,
          _explicit_data |-> << >>, _registers |-> << >>]

\* number of trailing zero bits of x > 0 (__builtin_ctzl)
RECURSIVE ctzl(_)
ctzl(x) == IF x % 2 = 1 THEN 0 ELSE 1 + ctzl(x \div 2)

\* 2^n
RECURSIVE Pow2(_)
Pow2(n) == IF n = 0 THEN 1 ELSE 2 * Pow2(n - 1)

\* first_one_bit of _update_registers: the hash shifted right by the
\* precision, bit HLL_ZERO_COUNT_BITS forced to one, trailing zeros plus one.
\* The shifted value of a hash below 2^31 is below 2^HLL_ZERO_COUNT_BITS, so
\* the forced bit is the lowest set bit exactly when the shifted value is 0.
FirstOneBit(hash_value) ==
    LET shifted == hash_value \div Pow2(HLL_COLUMN_PRECISION)
    IN  (IF shifted = 0 THEN HLL_ZERO_COUNT_BITS ELSE ctzl(shifted)) + 1

\* inline void _update_registers(uint64_t hash_value), on the array
UpdateKeepsLower(regs, hash_value) ==
    LET idx == hash_value % HLL_REGISTERS_COUNT
        first_one_bit == FirstOneBit(hash_value)
    IN  SetReg(regs, idx,
               IF Reg(regs, idx) = 0 \/ Reg(regs, idx) > first_one_bit
               THEN first_one_bit ELSE Reg(regs, idx))
_update_registers(regs, hash_value) ==
    LET idx == hash_value % HLL_REGISTERS_COUNT
        first_one_bit == FirstOneBit(hash_value)
    IN  SetReg(regs, idx,
               IF Reg(regs, idx) > first_one_bit
               THEN Reg(regs, idx) ELSE first_one_bit)

\* void _merge_registers(const uint8_t* other), on the arrays; the variants
\* keep the own array and take the other one
MergeKeepsOwn(regs, other) == regs
MergeTakesOther(regs, other) == other
_merge_registers(regs, other) ==
    [i \in {j \in DOMAIN other : Reg(regs, j) < other[j]} |-> other[i]]
    @@ regs

\* the greatest i in lo .. hi with _explicit_data[i] <= data, or -1: where
\* the while loop of _explicit_data_insert, which steps down from hi while
\* _explicit_data[i] > data, stops (it stops in the upper half of lo .. hi
\* when some element there is <= data, and in the lower half otherwise)
RECURSIVE LastNotGreater(_, _, _, _)
LastNotGreater(buf, lo, hi, data) ==
    IF lo > hi THEN -1
    ELSE IF lo = hi THEN (IF buf[lo + 1] <= data THEN lo ELSE -1)
    ELSE LET mid == (lo + hi) \div 2
         IN  IF \E k \in (mid + 1)..hi : buf[k + 1] <= data
             THEN LastNotGreater(buf, mid + 1, hi, data)
             ELSE LastNotGreater(buf, lo, mid, data)

\* the while loop of _explicit_data_insert started at i: the index i it ends
\* with, or -2 when it returns false on an equal element
InsertScan(buf, i, data) ==
    LET stop == LastNotGreater(buf, 0, i, data)
    IN  IF stop # -1 /\ buf[stop + 1] = data THEN -2 ELSE stop

\* bool _explicit_data_insert(uint64_t data): the sketch afterwards
InsertAppends(s, data) ==
    [s EXCEPT !._explicit_data = << Append(s._explicit_data[1], data) >>,
              !._explicit_data_num = s._explicit_data_num + 1]
_explicit_data_insert(s, data) ==
    LET buf == s._explicit_data[1]
        n == s._explicit_data_num
        scan == InsertScan(buf, n - 1, data)
        i == scan + 1
    IN  IF scan = -2 THEN s
        ELSE [s EXCEPT
                !._explicit_data =
                    << SubSeq(buf, 1, i) \o << data >>
                       \o SubSeq(buf, i + 1, n) >>,
                !._explicit_data_num = n + 1]

\* the slots of the explicit buffer that _explicit_data_insert writes: none
\* when it returns false, else the slots i + 1 .. _explicit_data_num of the
\* memmove and the slot i of the store
InsertWrites(s, data) ==
    LET scan == InsertScan(s._explicit_data[1], s._explicit_data_num - 1,
                           data)
    IN  IF scan = -2 THEN {} ELSE (scan + 1)..s._explicit_data_num

\* the value _explicit_data_insert returns
ExplicitInsertReturns(s, data) ==
    InsertScan(s._explicit_data[1], s._explicit_data_num - 1, data) # -2

\* ------------------------------------------------------------ update, merge
\* the loop that folds buf[lo], ..., buf[hi] into the register array regs,
\* in this order (split in halves to bound the depth of the evaluation)
RECURSIVE FoldExplicit(_, _, _, _)
FoldExplicit(regs, buf, lo, hi) ==
    IF lo > hi THEN regs
    ELSE IF lo = hi THEN _update_registers(regs, buf[lo])
    ELSE LET mid == (lo + hi) \div 2
         IN  Then(FoldExplicit(regs, buf, lo, mid),
                  LAMBDA left : FoldExplicit(left, buf, mid + 1, hi))

\* void _convert_explicit_to_register(): allocate the register array, fold
\* every stored hash into it, discard the explicit buffer
_convert_explicit_to_register(s) ==
    [s EXCEPT !._registers =
                  << FoldExplicit(ZeroRegisters, s._explicit_data[1],
                                  1, s._explicit_data_num) >>,
              !._explicit_data = << >>,
              !._explicit_data_num = 0]

\* void update(uint64_t hash_value)
update(s, hash_value) ==
    IF s._type = HLL_DATA_EMPTY
    THEN _explicit_data_insert(
             [s EXCEPT !._type = HLL_DATA_EXPLICIT,
                       !._explicit_data = << << >> >>], hash_value)
    ELSE IF s._type = HLL_DATA_EXPLICIT
    THEN IF ~ExplicitInsertReturns(s, hash_value)
            \/ s._explicit_data_num < HLL_EXPLICIT_INT64_NUM
         THEN _explicit_data_insert(s, hash_value)
         ELSE LET c == _convert_explicit_to_register(s)
              IN  [c EXCEPT !._type = HLL_DATA_FULL,
                            !._registers =
                                << _update_registers(c._registers[1],
                                                     hash_value) >>]
    ELSE [s EXCEPT !._type = HLL_DATA_FULL,
                   !._registers =
                       << _update_registers(s._registers[1], hash_value) >>]

\* the loop that inserts buf[lo], ..., buf[hi] into the explicit buffer of
\* s, in this order (split in halves to bound the depth of the evaluation)
RECURSIVE InsertEach(_, _, _, _)
InsertEach(s, buf, lo, hi) ==
    IF lo > hi THEN s
    ELSE IF lo = hi THEN _explicit_data_insert(s, buf[lo])
    ELSE LET mid == (lo + hi) \div 2
         IN  Then(InsertEach(s, buf, lo, mid),
                  LAMBDA left : InsertEach(left, buf, mid + 1, hi))

\* void merge(const HyperLogLog& other): the sketch afterwards
merge(s, other) ==
    IF other._type = HLL_DATA_EMPTY THEN s
    ELSE IF s._type = HLL_DATA_EMPTY THEN CopyCtor(other)
    ELSE IF s._type = HLL_DATA_EXPLICIT
    THEN IF other._type = HLL_DATA_EXPLICIT
         THEN LET all == InsertEach(s, other._explicit_data[1], 1,
                                    other._explicit_data_num)
              IN  IF all._explicit_data_num > HLL_EXPLICIT_INT64_NUM
                  THEN [_convert_explicit_to_register(all)
                            EXCEPT !._type = HLL_DATA_FULL]
                  ELSE all
         ELSE LET c == _convert_explicit_to_register(s)
              IN  [c EXCEPT !._type = HLL_DATA_FULL,
                            !._registers =
                                << _merge_registers(c._registers[1],
                                                    other._registers[1]) >>]
    ELSE IF other._type = HLL_DATA_EXPLICIT
    THEN [s EXCEPT !._type = HLL_DATA_FULL,
                   !._registers =
                       << FoldExplicit(s._registers[1],
                                       other._explicit_data[1], 1,
                                       other._explicit_data_num) >>]
    ELSE [s EXCEPT !._type = HLL_DATA_FULL,
                   !._registers =
                       << _merge_registers(s._registers[1],
                                           other._registers[1]) >>]

\* ------------------------------------------------------------ estimator
\* floor(t * z / 2^15) with every intermediate value below 2^31
MulShift15(t, z) ==
    (t \div 32768) * z + ((t % 32768) * z) \div 32768

\* the sum of the terms t / j, t * z2 / (j + 2), ... of the series of atanh
RECURSIVE AtanhSeries(_, _, _)
AtanhSeries(t, z2, j) ==
    IF t = 0 THEN 0
    ELSE (t \div j) + AtanhSeries(MulShift15(t, z2), z2, j + 2)

\* m * ln(m / V) rounded to an integer, for m = HLL_REGISTERS_COUNT and
\* 1 <= V <= m: ln(m / V) = 2 * atanh((m - V) / (m + V)), in fixed point
\* with 6 fraction bits for the terms and 15 for the argument
LinearCounting(V) ==
    LET m == HLL_REGISTERS_COUNT
        a == (m - V) * 32768
        D == m + V
        q == a \div D
        t == q * 64 + ((a % D) * 64) \div D
    IN  (AtanhSeries(t, (q * q) \div 32768, 1) + 32) \div 64

\* the sum over v = 1 .. n of (number of registers of value v) * 2^(16-v)
RECURSIVE HarmonicPart(_, _)
HarmonicPart(regs, n) ==
    IF n = 0 THEN 0
    ELSE Cardinality({i \in DOMAIN regs : regs[i] = n}) * Pow2(16 - n)
         + HarmonicPart(regs, n - 1)

\* 2^16 times the sum over all registers of 2^(-registers[i]); a term below
\* 2^(-16) counts as zero
HarmonicSum16(regs) ==
    (HLL_REGISTERS_COUNT - Cardinality(DOMAIN regs)) * 65536
    + HarmonicPart(regs, 16)

\* floor(2^n * rem / d) added to 2^n * q, by shift and subtract
RECURSIVE LongDivide(_, _, _, _)
LongDivide(q, rem, d, n) ==
    IF n = 0 THEN q
    ELSE IF 2 * rem >= d THEN LongDivide(2 * q + 1, 2 * rem - d, d, n - 1)
    ELSE LongDivide(2 * q, 2 * rem, d, n - 1)

\* alpha_m * m^2 for m = 16384, alpha_m = 0.7213 / (1 + 1.079 / m)
AlphaMM == 193609744
\* 2^16 * alpha_m * m / 2.5: the raw estimate is at most 2.5 m exactly when
\* the harmonic sum is at least alpha_m * m / 2.5
SmallRangeSum16 == 309775590

\* the estimate of a register array: linear counting when the raw estimate
\* is at most 2.5 m and some register is zero, the raw estimate otherwise
EstimateRegisters(regs) ==
    LET V == HLL_REGISTERS_COUNT - Cardinality(DOMAIN regs)
    IN  IF V > 0 /\ (V * 65536 >= SmallRangeSum16
                     \/ HarmonicSum16(regs) >= SmallRangeSum16)
        THEN LinearCounting(V)
        ELSE LET d == HarmonicSum16(regs)
             IN  (LongDivide(AlphaMM \div d, AlphaMM % d, d, 17) + 1) \div 2

\* int64_t estimate_cardinality() const
estimate_cardinality(s) ==
    IF s._type = HLL_DATA_EMPTY THEN 0
    ELSE IF s._type = HLL_DATA_EXPLICIT THEN s._explicit_data_num
    ELSE EstimateRegisters(s._registers[1])

\* ------------------------------------------------------------ codec
\* A Slice is the sequence of its bytes.
\* the k-th byte (k = 0 is the lowest) of x >= 0
ByteOf(x, k) ==
    IF k = 0 THEN x % 256
    ELSE IF k = 1 THEN (x \div 256) % 256
    ELSE IF k = 2 THEN (x \div 65536) % 256
    ELSE IF k = 3 THEN (x \div 16777216) % 256
    ELSE 0

\* 64-bit little-endian value at bytes pos .. pos+7 of buf; the four high
\* bytes of a hash below 2^31 are zero; the variant reads two bytes
DecodeTwoBytes(buf, pos) == buf[pos] + 256 * buf[pos + 1]
DecodeFixed64(buf, pos) ==
    buf[pos] + 256 * buf[pos + 1] + 65536 * buf[pos + 2]
    + 16777216 * buf[pos + 3]

\* signed 32-bit little-endian value at bytes pos .. pos+3 of buf
\* (SparseLengthValueType is int32_t)
DecodeFixed32(buf, pos) ==
    buf[pos] + 256 * buf[pos + 1] + 65536 * buf[pos + 2]
    + 16777216 * (IF buf[pos + 3] >= 128 THEN buf[pos + 3] - 256
                  ELSE buf[pos + 3])

\* unsigned 16-bit little-endian value at bytes pos, pos+1 of buf
\* (SparseIndexType is uint16_t)
DecodeFixed16(buf, pos) == buf[pos] + 256 * buf[pos + 1]

\* the register indexes 0 .. HLL_REGISTERS_COUNT - 1 in ascending order
AllIndexes == [p \in 1..HLL_REGISTERS_COUNT |-> p - 1]

\* the indexes of the non-zero registers in ascending order
NonZeroIndexes(regs) == SelectSeq(AllIndexes, LAMBDA i : i \in DOMAIN regs)

\* size_t serialize(uint8_t* dst) const: the bytes written.  SPARSE and FULL
\* sketches are written in the sparse layout when at most
\* HLL_SPARSE_THRESHOLD registers are non-zero and in the full layout
\* otherwise.
serialize(s) ==
    IF s._type = HLL_DATA_EMPTY THEN << HLL_DATA_EMPTY >>
    ELSE IF s._type = HLL_DATA_EXPLICIT
    THEN << HLL_DATA_EXPLICIT, s._explicit_data_num % 256 >>
         \o [p \in 1..(8 * s._explicit_data_num) |->
               ByteOf(s._explicit_data[1][((p - 1) \div 8) + 1],
                      (p - 1) % 8)]
    ELSE LET regs == s._registers[1]
             k == Cardinality(DOMAIN regs)
         IN  IF k > HLL_SPARSE_THRESHOLD
             THEN << HLL_DATA_FULL >>
                  \o [p \in 1..HLL_REGISTERS_COUNT |-> Reg(regs, p - 1)]
             ELSE Then(NonZeroIndexes(regs), LAMBDA idx :
                  << HLL_DATA_SPARSE, ByteOf(k, 0), ByteOf(k, 1),
                     ByteOf(k, 2), ByteOf(k, 3) >>
                  \o [p \in 1..(3 * k) |->
                        LET i == idx[((p - 1) \div 3) + 1]
                        IN  IF (p - 1) % 3 = 2 THEN regs[i]
                            ELSE ByteOf(i, (p - 1) % 3)])

\* size_t max_serialized_size() const
max_serialized_size(s) == HLL_COLUMN_DEFAULT_LEN

\* sizeof(*this): the tag, the count and the two pointers on a 64-bit build
SizeofThis == 4 + 4 + 8 + 8

\* size_t memory_consumed() const
memory_consumed(s) ==
    SizeofThis
    + (IF s._explicit_data # << >> THEN HLL_EXPLICIT_INT64_NUM_DOUBLE ELSE 0)
    + (IF s._registers # << >> THEN HLL_REGISTERS_COUNT ELSE 0)

\* static bool is_valid(const Slice& slice)
is_valid(slice) ==
    IF Len(slice) < 1 THEN FALSE
    ELSE IF slice[1] = HLL_DATA_EMPTY THEN TRUE
    ELSE IF slice[1] = HLL_DATA_EXPLICIT
    THEN Len(slice) >= 2 /\ Len(slice) = 2 + 8 * slice[2]
    ELSE IF slice[1] = HLL_DATA_SPARSE
    THEN Len(slice) >= 5 /\ Len(slice) = 5 + 3 * DecodeFixed32(slice, 2)
    ELSE IF slice[1] = HLL_DATA_FULL
    THEN Len(slice) >= 1 + HLL_REGISTERS_COUNT
    ELSE FALSE

\* the loop that stores the sparse records lo, ..., hi of slice into the
\* register array regs, in this order
RECURSIVE LoadSparse(_, _, _, _)
LoadSparse(regs, slice, lo, hi) ==
    IF lo > hi THEN regs
    ELSE IF lo = hi
    THEN SetReg(regs, DecodeFixed16(slice, 6 + 3 * (lo - 1)),
                slice[8 + 3 * (lo - 1)])
    ELSE LET mid == (lo + hi) \div 2
         IN  Then(LoadSparse(regs, slice, lo, mid),
                  LAMBDA left : LoadSparse(left, slice, mid + 1, hi))

\* bool deserialize(const Slice& slice): the value returned.  The slice is
\* rejected when is_valid rejects it and when a sparse record carries an
\* index that is no register.
DeserializeReturns(slice) ==
    /\ is_valid(slice)
    /\ slice[1] = HLL_DATA_SPARSE =>
          \A k \in 1..DecodeFixed32(slice, 2) :
              DecodeFixed16(slice, 6 + 3 * (k - 1)) < HLL_REGISTERS_COUNT

\* bool deserialize(const Slice& slice), called on an EMPTY sketch ("Now,
\* only empty HLL support this function"): the sketch afterwards.  A
\* rejected slice leaves the sketch as it was; an accepted one sets the tag
\* and loads the count and the buffer of its layout, the explicit elements
\* and the register bytes as they are in the slice.
deserialize(s, slice) ==
    IF ~DeserializeReturns(slice) THEN s
    ELSE IF slice[1] = HLL_DATA_EMPTY
    THEN [s EXCEPT !._type = HLL_DATA_EMPTY]
    ELSE IF slice[1] = HLL_DATA_EXPLICIT
    THEN [s EXCEPT
            !._type = HLL_DATA_EXPLICIT,
            !._explicit_data_num = slice[2],
            !._explicit_data =
                << << >> \o [j \in 1..slice[2] |->
                               DecodeFixed64(slice, 3 + 8 * (j - 1))] >>]
    ELSE IF slice[1] = HLL_DATA_SPARSE
    THEN [s EXCEPT
            !._type = HLL_DATA_SPARSE,
            !._registers = << LoadSparse(ZeroRegisters, slice, 1,
                                         DecodeFixed32(slice, 2)) >>]
    ELSE [s EXCEPT
            !._type = HLL_DATA_FULL,
            !._registers =
                << ZeroRegisters
                   @@ [i \in {j \in 0..(HLL_REGISTERS_COUNT - 1) :
                                 slice[j + 2] # 0} |-> slice[i + 2]] >>]

\* ------------------------------------------------------------ assignment
\* HyperLogLog& operator=(const HyperLogLog& other), this != &other: *this
\* afterwards; the variant frees the buffers and copies nothing
CopyAssignFrees(s, other) == clear(s)
CopyAssign(s, other) ==
    LET freed == [s EXCEPT !._registers = << >>, !._explicit_data = << >>,
                           !._explicit_data_num = 0,
                           !._type = other._type]
    IN  IF other._type = HLL_DATA_EXPLICIT
        THEN [freed EXCEPT
                !._explicit_data_num = other._explicit_data_num,
                !._explicit_data =
                    << SubSeq(other._explicit_data[1], 1,
                              other._explicit_data_num) >>]
        ELSE IF other._type \in {HLL_DATA_SPARSE, HLL_DATA_FULL}
        THEN [freed EXCEPT !._registers = << other._registers[1] >>]
        ELSE freed

\* HyperLogLog& operator=(HyperLogLog&& other), this != &other: *this
\* afterwards
MoveAssignThis(s, other) ==
    LET freed == [s EXCEPT !._registers = << >>, !._explicit_data = << >>,
                           !._explicit_data_num = 0,
                           !._type = other._type]
    IN  IF other._type = HLL_DATA_EXPLICIT
        THEN [freed EXCEPT
                !._explicit_data_num = other._explicit_data_num,
                !._explicit_data = other._explicit_data]
        ELSE IF other._type \in {HLL_DATA_SPARSE, HLL_DATA_FULL}
        THEN [freed EXCEPT !._registers = other._registers]
        ELSE freed

\* HyperLogLog& operator=(HyperLogLog&& other), this != &other: other
\* afterwards; the variant leaves other its pointers
MoveKeepsPointers(other) == [other EXCEPT !._type = HLL_DATA_EMPTY]
MoveAssignOther(other) ==
    IF other._type = HLL_DATA_EXPLICIT
    THEN [other EXCEPT !._explicit_data_num = 0, !._explicit_data = << >>,
                       !._type = HLL_DATA_EMPTY]
    ELSE IF other._type \in {HLL_DATA_SPARSE, HLL_DATA_FULL}
    THEN [other EXCEPT !._registers = << >>, !._type = HLL_DATA_EMPTY]
    ELSE other

\* HyperLogLog(HyperLogLog&& other): the new object
MoveCtorThis(other) ==
    IF other._type = HLL_DATA_EXPLICIT
    THEN [EmptyHll EXCEPT
            !._type = other._type,
            !._explicit_data_num = other._explicit_data_num,
            !._explicit_data = other._explicit_data]
    ELSE IF other._type \in {HLL_DATA_SPARSE, HLL_DATA_FULL}
    THEN [EmptyHll EXCEPT !._type = other._type,
                          !._registers = other._registers]
    ELSE [EmptyHll EXCEPT !._type = other._type]

\* HyperLogLog(HyperLogLog&& other): other afterwards
MoveCtorOther(other) ==
    IF other._type = HLL_DATA_EXPLICIT
    THEN [other EXCEPT !._explicit_data_num = 0, !._explicit_data = << >>,
                       !._type = HLL_DATA_EMPTY]
    ELSE IF other._type \in {HLL_DATA_SPARSE, HLL_DATA_FULL}
    THEN [other EXCEPT !._registers = << >>, !._type = HLL_DATA_EMPTY]
    ELSE other

\* ------------------------------------------------------------ inputs
\* the hash values passed to update: the 160th multiple of 20011 (stored in
\* the larger explicit slice below), 5 (register 5, first_one_bit 51),
\* 8 * 2^14 + 5 (register 5 again, first_one_bit 4), and further ones
HashChoice == << 3201760, 5, 131077, 20011, 32768 >>
Hashes == {HashChoice[i] : i \in 1..NumHashes}

\* the serialized EXPLICIT sketch of the hashes 20011 * j, j = 1 .. n
ExplicitSlice(n) ==
    << HLL_DATA_EXPLICIT, n >>
    \o [p \in 1..(8 * n) |->
          ByteOf(20011 * (((p - 1) \div 8) + 1), (p - 1) % 8)]

\* a serialized SPARSE sketch: registers 5, 100 and 16383; the byte 200 of
\* register 100 is above every value that update stores
SparseSlice ==
    << HLL_DATA_SPARSE, 3, 0, 0, 0, 5, 0, 2, 100, 0, 200, 255, 63, 51 >>

\* a serialized FULL sketch: the registers 0 .. 4096 are non-zero
FullSlice ==
    << HLL_DATA_FULL >>
    \o [p \in 1..HLL_REGISTERS_COUNT |->
          IF p - 1 <= HLL_SPARSE_THRESHOLD THEN ((p - 1) % 3) + 1 ELSE 0]

\* slices that deserialize rejects: no byte, an unknown tag, an explicit
\* count that does not match the length, a sparse record whose index is 16384
BadSlices ==
    << << >>, << 4 >>, << HLL_DATA_EXPLICIT, 2, 0, 0, 0, 0, 0, 0, 0, 0 >>,
       << HLL_DATA_SPARSE, 1, 0, 0, 0, 0, 64, 1 >> >>

\* the slices passed to deserialize (an explicit count of 161 fits the count
\* byte and the length, so that slice is accepted)
Slices ==
    << << HLL_DATA_EMPTY >>, ExplicitSlice(159), ExplicitSlice(161),
       SparseSlice >> \o BadSlices

\* the slices passed to deserialize where the full layout is exercised
FullSlices ==
    << << HLL_DATA_EMPTY >>, ExplicitSlice(159), SparseSlice, FullSlice >>
    \o BadSlices

\* ------------------------------------------------------------ state machine
\* hll: the sketch objects by name; fed: in the build harness, how many
\* values of its stream each of the two built sketches has been fed
VARIABLES hll, fed
vars == << hll, fed >>

Init ==
    /\ hll = [i \in {"a", "b"} |-> EmptyHll]
    /\ fed = << >>

\* hll[i].update(h)
Update(i, h) ==
    /\ hll' = [hll EXCEPT ![i] = update(hll[i], h)]
    /\ UNCHANGED fed

\* hll[i].merge(hll[j])
Merge(i, j) ==
    /\ hll' = [hll EXCEPT ![i] = merge(hll[i], hll[j])]
    /\ UNCHANGED fed

\* hll[i].clear()
Clear(i) ==
    /\ hll' = [hll EXCEPT ![i] = clear(hll[i])]
    /\ UNCHANGED fed

\* hll[i] = hll[j]
AssignCopy(i, j) ==
    /\ hll' = IF i = j THEN hll
              ELSE [hll EXCEPT ![i] = CopyAssign(hll[i], hll[j])]
    /\ UNCHANGED fed

\* hll[i] = std::move(hll[j])
AssignMove(i, j) ==
    /\ hll' = IF i = j THEN hll
              ELSE [hll EXCEPT ![i] = MoveAssignThis(hll[i], hll[j]),
                               ![j] = MoveAssignOther(hll[j])]
    /\ UNCHANGED fed

\* hll[i] = HyperLogLog(h)
AssignHash(i, h) ==
    /\ hll' = [hll EXCEPT ![i] = MoveAssignThis(hll[i], HashCtor(h))]
    /\ UNCHANGED fed

\* hll[i].deserialize(slice); "only empty HLL support this function"
Deserialize(i, slice) ==
    /\ hll[i]._type = HLL_DATA_EMPTY
    /\ hll' = [hll EXCEPT ![i] = deserialize(hll[i], slice)]
    /\ UNCHANGED fed

\* one call on the sketch objects, deserialize reading one of slices
Step(slices) ==
    \/ \E i \in DOMAIN hll, h \in Hashes : Update(i, h)
    \/ \E i \in DOMAIN hll, j \in DOMAIN hll : Merge(i, j)
    \/ \E i \in DOMAIN hll : Clear(i)
    \/ \E i \in DOMAIN hll, j \in DOMAIN hll : AssignCopy(i, j)
    \/ \E i \in DOMAIN hll, j \in DOMAIN hll : AssignMove(i, j)
    \/ \E i \in DOMAIN hll, h \in Hashes : AssignHash(i, h)
    \/ \E i \in DOMAIN hll, b \in 1..Len(slices) : Deserialize(i, slices[b])

Next == Step(Slices)

Spec == Init /\ [][Next]_vars

\* the same calls, with slices that reach the full layout
NextFull == Step(FullSlices)

SpecFull == Init /\ [][NextFull]_vars

\* ------------------------------------------------------------ build harness
\* Two sketches x and y are built from EMPTY by update alone, each from its
\* own stream of hash values, and u is fed every value either of them is
\* fed.  The values are the multiples 20011 * r, r = 1 .. 163; an order
\* visits r with a stride.  The stream of y starts where the first 159
\* values of the stream of x end, and wraps around into them.
OrderStride == << 37, 162, 1, 101 >>

StreamHash(o, k) == 20011 * (((k * OrderStride[o]) % 163) + 1)

Stream(i, o, k) ==
    IF i = "x" THEN StreamHash(o, k) ELSE StreamHash(o, 159 + k)

InitBuild ==
    /\ hll = [i \in {"x", "y", "u"} |-> EmptyHll]
    /\ fed \in [x : {0}, y : {0}, order : 1..NumOrders]

\* x.update(h); u.update(h) for the next value h of the stream of x
FeedX ==
    /\ fed.x < StreamLen
    /\ fed.y <= ShortLen \/ fed.x < ShortLen
    /\ LET h == Stream("x", fed.order, fed.x)
       IN  hll' = [hll EXCEPT !.x = update(@, h), !.u = update(@, h)]
    /\ fed' = [fed EXCEPT !.x = @ + 1]

\* y.update(h); u.update(h) for the next value h of the stream of y
FeedY ==
    /\ fed.y < StreamLen
    /\ fed.x <= ShortLen \/ fed.x = StreamLen \/ fed.y < ShortLen
    /\ LET h == Stream("y", fed.order, fed.y)
       IN  hll' = [hll EXCEPT !.y = update(@, h), !.u = update(@, h)]
    /\ fed' = [fed EXCEPT !.y = @ + 1]

\* i.update(h); u.update(h) for a value h that i has been fed before: the
\* first or the latest value of its stream
Repeat(i, k) ==
    /\ k \in {0, fed[i] - 1}
    /\ k < fed[i]
    /\ LET h == Stream(i, fed.order, k)
       IN  hll' = [hll EXCEPT ![i] = update(@, h), !.u = update(@, h)]
    /\ UNCHANGED fed

NextBuild ==
    \/ FeedX
    \/ FeedY
    \/ \E i \in {"x", "y"}, k \in 0..StreamLen : Repeat(i, k)

SpecBuild == InitBuild /\ [][NextBuild]_vars

\* ------------------------------------------------------------ properties
Max(a, b) == IF a >= b THEN a ELSE b

\* the hashes an EXPLICIT sketch stores
Elements(s) == {s._explicit_data[1][k] : k \in 1..s._explicit_data_num}

\* the hash values the properties probe with
ProbeHashes == {HashChoice[i] : i \in 1..Len(HashChoice)}

\* the set of values sketch i of the build harness has been fed
FedSet(i) ==
    IF i = "u"
    THEN {Stream("x", fed.order, k) : k \in 0..(fed.x - 1)}
         \cup {Stream("y", fed.order, k) : k \in 0..(fed.y - 1)}
    ELSE {Stream(i, fed.order, k) : k \in 0..(fed[i] - 1)}

\* sketches that stand for a third operand: a new one, two of one hash, and
\* the decoded sparse one
Operands ==
    {EmptyHll, HashCtor(HashChoice[2]), HashCtor(HashChoice[3]),
     deserialize(EmptyHll, SparseSlice)}

\* C1: a step leaves no sketch in a lower kind, in the order EMPTY <
\* EXPLICIT < SPARSE < FULL of the values of HllDataType, unless it is no
\* update and no merge of any sketch.
MonotoneKind ==
    [][(\A i \in DOMAIN hll : hll'[i]._type >= hll[i]._type)
       \/ ~((\E i \in DOMAIN hll, h \in Hashes : Update(i, h))
            \/ (\E i \in DOMAIN hll, j \in DOMAIN hll : Merge(i, j)))]_vars

\* a FULL sketch whose registers are those of the decoded sparse slice and
\* one more: an update has promoted the SPARSE sketch
MonotoneKindWitness ==
    \E i \in DOMAIN hll :
        /\ hll[i]._type = HLL_DATA_FULL
        /\ hll[i]._type > HLL_DATA_SPARSE
        /\ DOMAIN hll[i]._registers[1] = {5, 100, 16383, 3201760 % 16384}

\* C2: a sketch built from EMPTY by inserting a set H of distinct hashes,
\* 1 <= |H| <= 160, in any order and with repetitions, is EXPLICIT, holds
\* exactly the elements of H, and estimates exactly |H|.
ExplicitExact ==
    \A i \in DOMAIN hll :
        LET H == FedSet(i)
        IN  (1 <= Cardinality(H) /\ Cardinality(H) <= 160)
            => /\ hll[i]._type = HLL_DATA_EXPLICIT
               /\ Elements(hll[i]) = H
               /\ hll[i]._explicit_data_num = Cardinality(H)
               /\ estimate_cardinality(hll[i]) = Cardinality(H)

\* 160 distinct hashes fed in a scrambled order
ExplicitExactWitness ==
    /\ fed.order = 1
    /\ fed.x = 160
    /\ hll.x._type = HLL_DATA_EXPLICIT
    /\ estimate_cardinality(hll.x) = 160

\* C3: a second update with the same hash leaves the estimate of the first
\* update; an EXPLICIT sketch that stores the hash is left as it is by an
\* update with it.
IdempotentInsert ==
    \A i \in DOMAIN hll, h \in ProbeHashes :
        LET once == update(hll[i], h)
            twice == update(once, h)
        IN  /\ estimate_cardinality(twice) = estimate_cardinality(once)
            /\ (hll[i]._type = HLL_DATA_EXPLICIT /\ h \in Elements(hll[i]))
               => once = hll[i]
            /\ once._type = HLL_DATA_EXPLICIT => twice = once

\* an EXPLICIT sketch of exactly 160 hashes, one of them stored by update,
\* that an update with a new hash turns FULL
IdempotentInsertWitness ==
    \E i \in DOMAIN hll :
        /\ hll[i]._type = HLL_DATA_EXPLICIT
        /\ hll[i]._explicit_data_num = 160
        /\ HashChoice[1] \in Elements(hll[i])
        /\ update(hll[i], HashChoice[1]) = hll[i]
        /\ update(hll[i], HashChoice[2])._type = HLL_DATA_FULL

\* C4: merging the separately built sketches gives the estimate of the
\* sketch built from both streams.
MergeIsUnion ==
    /\ estimate_cardinality(merge(hll.x, hll.y))
       = estimate_cardinality(hll.u)
    /\ estimate_cardinality(merge(hll.y, hll.x))
       = estimate_cardinality(hll.u)

\* two EXPLICIT sketches whose union exceeds 160, so that the merge upgrades
MergeIsUnionWitness ==
    /\ hll.x._type = HLL_DATA_EXPLICIT
    /\ hll.y._type = HLL_DATA_EXPLICIT
    /\ fed.x >= 159
    /\ hll.u._type = HLL_DATA_FULL
    /\ merge(hll.x, hll.y)._type = HLL_DATA_FULL
    /\ estimate_cardinality(merge(hll.x, hll.y)) = fed.x + fed.y

\* C5: merge(A, B) and merge(B, A) estimate the same.
MergeCommutes ==
    \A i \in DOMAIN hll, j \in DOMAIN hll :
        estimate_cardinality(merge(hll[i], hll[j]))
        = estimate_cardinality(merge(hll[j], hll[i]))

\* a decoded SPARSE sketch and an EXPLICIT one, each adding to the other
MergeCommutesWitness ==
    /\ hll.a._type = HLL_DATA_SPARSE
    /\ hll.b._type = HLL_DATA_EXPLICIT
    /\ estimate_cardinality(merge(hll.a, hll.b))
       > estimate_cardinality(hll.a)
    /\ estimate_cardinality(merge(hll.b, hll.a))
       > estimate_cardinality(hll.b)

\* C6: merging B into A and then C gives the estimate of merging into A
\* the result of merging C into B.
MergeAssociates ==
    \A i \in DOMAIN hll, j \in DOMAIN hll :
        /\ \A C \in Operands \cup {hll[k] : k \in DOMAIN hll} :
              estimate_cardinality(merge(merge(hll[i], hll[j]), C))
              = estimate_cardinality(merge(hll[i], merge(hll[j], C)))
        /\ \A C \in Operands :
              estimate_cardinality(merge(merge(C, hll[i]), hll[j]))
              = estimate_cardinality(merge(C, merge(hll[i], hll[j])))

\* three operands of three kinds
MergeAssociatesWitness ==
    /\ hll.a._type = HLL_DATA_EXPLICIT
    /\ hll.b._type = HLL_DATA_FULL
    /\ \E C \in Operands :
          /\ C._type = HLL_DATA_SPARSE
          /\ estimate_cardinality(merge(merge(hll.a, hll.b), C))
             > estimate_cardinality(merge(hll.a, hll.b))
          /\ estimate_cardinality(merge(hll.a, hll.b))
             > estimate_cardinality(hll.b)

\* what a sketch holds
Payload(s) ==
    IF s._type = HLL_DATA_EXPLICIT
    THEN << SubSeq(s._explicit_data[1], 1, s._explicit_data_num) >>
    ELSE s._registers

\* the sketch decoded from the serialized form of s
Decoded(s) == deserialize(EmptyHll, serialize(s))

\* the round trip of sketch S through its serialized form bytes, which
\* decodes into D (a D that differs from S is merged with every sketch)
RoundTripOf(S, bytes, D) ==
    /\ is_valid(bytes)
    /\ DeserializeReturns(bytes)
    /\ estimate_cardinality(D) = estimate_cardinality(S)
    /\ Payload(D) = Payload(S)
    /\ \/ D = S
       \/ \A j \in DOMAIN hll :
             /\ estimate_cardinality(merge(D, hll[j]))
                = estimate_cardinality(merge(S, hll[j]))
             /\ estimate_cardinality(merge(hll[j], D))
                = estimate_cardinality(merge(hll[j], S))
    /\ S._type \in {HLL_DATA_EMPTY, HLL_DATA_EXPLICIT}
       => /\ D._type = S._type
          /\ serialize(D) = bytes

\* C7: the serialized form of a sketch is accepted and decodes into a
\* sketch with the same estimate and the same merge results; the decoded
\* form of an EMPTY or EXPLICIT sketch serializes to the same bytes.
RoundTrip ==
    \A i \in DOMAIN hll :
        Then(serialize(hll[i]), LAMBDA bytes :
            Then(deserialize(EmptyHll, bytes), LAMBDA D :
                RoundTripOf(hll[i], bytes, D)))

\* a sketch written in the full layout, and a FULL sketch written in the
\* sparse layout, which decodes into a SPARSE sketch
RoundTripWitness ==
    /\ hll.a._type = HLL_DATA_FULL
    /\ Len(serialize(hll.a)) = HLL_COLUMN_DEFAULT_LEN
    /\ Decoded(hll.a) = hll.a
    /\ hll.b._type = HLL_DATA_FULL
    /\ Decoded(hll.b)._type = HLL_DATA_SPARSE
    /\ Decoded(hll.b)._registers = hll.b._registers
    /\ estimate_cardinality(merge(Decoded(hll.b), hll.a))
       = estimate_cardinality(merge(hll.b, hll.a))

\* C8: the serialized size is at most 16385 bytes, an EXPLICIT sketch holds
\* at most 160 hashes and a SPARSE sketch at most 4096 non-zero registers.
BoundedSizes ==
    \A i \in DOMAIN hll :
        /\ Len(serialize(hll[i])) <= 16385
        /\ Len(serialize(hll[i])) <= max_serialized_size(hll[i])
        /\ hll[i]._type = HLL_DATA_EXPLICIT
           => hll[i]._explicit_data_num <= 160
        /\ hll[i]._type = HLL_DATA_SPARSE
           => Cardinality(DOMAIN hll[i]._registers[1]) <= 4096

\* the kind the merge table gives
MergedKind(s, other) ==
    IF s._type = HLL_DATA_EMPTY \/ other._type = HLL_DATA_EMPTY
    THEN Max(s._type, other._type)
    ELSE IF s._type = HLL_DATA_EXPLICIT /\ other._type = HLL_DATA_EXPLICIT
    THEN IF Cardinality(Elements(s) \cup Elements(other)) > 160
         THEN HLL_DATA_FULL ELSE HLL_DATA_EXPLICIT
    ELSE HLL_DATA_FULL

\* C9 as stated: the kind after merge is the greater of the two kinds, or
\* FULL after two EXPLICIT sketches whose union exceeds 160 hashes.
MergeKindIsLub ==
    \A i \in DOMAIN hll, j \in DOMAIN hll :
        LET s == hll[i]
            other == hll[j]
        IN  IF /\ s._type = HLL_DATA_EXPLICIT
               /\ other._type = HLL_DATA_EXPLICIT
               /\ Cardinality(Elements(s) \cup Elements(other)) > 160
            THEN merge(s, other)._type = HLL_DATA_FULL
            ELSE merge(s, other)._type = Max(s._type, other._type)

\* C9: the kind after merge is the greater of the two kinds when one of the
\* sketches is EMPTY, EXPLICIT or FULL after two EXPLICIT sketches according
\* to whether their union exceeds 160 hashes, and FULL in every other case,
\* so also when the greater kind is SPARSE.
MergeKind ==
    \A i \in DOMAIN hll, j \in DOMAIN hll :
        merge(hll[i], hll[j])._type = MergedKind(hll[i], hll[j])

\* an EXPLICIT and a SPARSE sketch, which merge into a FULL one either way
MergeKindWitness ==
    /\ hll.a._type = HLL_DATA_EXPLICIT
    /\ hll.b._type = HLL_DATA_SPARSE
    /\ merge(hll.a, hll.b)._type = HLL_DATA_FULL
    /\ merge(hll.b, hll.a)._type = HLL_DATA_FULL
    /\ merge(hll.b, hll.b)._type = HLL_DATA_FULL

\* C10: clear leaves a sketch EMPTY with no explicit buffer, no register
\* array and a count of 0, whatever it held; a second clear changes
\* nothing; the cleared sketch estimates 0 and takes updates as a new one.
ClearResets ==
    \A i \in DOMAIN hll :
        LET c == clear(hll[i])
        IN  /\ c._type = HLL_DATA_EMPTY
            /\ c._explicit_data = << >>
            /\ c._registers = << >>
            /\ c._explicit_data_num = 0
            /\ clear(c) = c
            /\ estimate_cardinality(c) = 0
            /\ \A h \in ProbeHashes :
                  /\ update(c, h) = update(EmptyHll, h)
                  /\ update(update(c, h), HashChoice[1])
                     = update(HashCtor(h), HashChoice[1])

\* a FULL sketch next to a cleared one
ClearResetsWitness ==
    /\ hll.a._type = HLL_DATA_FULL
    /\ clear(hll.a) = EmptyHll
    /\ hll.b = EmptyHll
    /\ hll.b = clear(hll.b)

\* the number of heap buffers a sketch owns: its non-null pointers
Owned(s) == Len(s._explicit_data) + Len(s._registers)

\* the target t and the source o after a move from the sketch s: the target
\* has the kind and the payload s had, the source is EMPTY with both
\* pointers null, and the buffers of s are the only ones the two own
Moved(s, t, o) ==
    /\ t._type = s._type
    /\ t._explicit_data = s._explicit_data
    /\ t._explicit_data_num = s._explicit_data_num
    /\ t._registers = s._registers
    /\ o._type = HLL_DATA_EMPTY
    /\ o._explicit_data = << >>
    /\ o._registers = << >>
    /\ o._explicit_data_num = 0
    /\ Owned(t) + Owned(o) = Owned(s)
    /\ clear(t) = EmptyHll
    /\ clear(o) = EmptyHll

\* C11: move construction from a sketch, and move assignment of it to any
\* other sketch, give the target the kind and payload of the source and
\* leave the source EMPTY with no buffer, so that no buffer has two owners.
MoveTransfers ==
    \A j \in DOMAIN hll :
        /\ Moved(hll[j], MoveCtorThis(hll[j]), MoveCtorOther(hll[j]))
        /\ \A i \in DOMAIN hll \ {j} :
              Moved(hll[j], MoveAssignThis(hll[i], hll[j]),
                    MoveAssignOther(hll[j]))

\* a FULL sketch moved over an EXPLICIT one
MoveTransfersWitness ==
    /\ hll.a._type = HLL_DATA_EXPLICIT
    /\ hll.b._type = HLL_DATA_FULL
    /\ MoveAssignThis(hll.a, hll.b) = hll.b
    /\ Owned(MoveAssignThis(hll.a, hll.b)) = 1
    /\ Owned(MoveAssignOther(hll.b)) = 0
    /\ MoveCtorThis(hll.a) = hll.a
    /\ MoveCtorOther(hll.a) = EmptyHll

\* the sketches a step changes
Changed == {k \in DOMAIN hll : hll'[k] # hll[k]}

\* C12: a copy-constructed sketch has the kind of the source and an equal
\* payload in buffers of its own; a step that copy-assigns a sketch to
\* another one leaves the target equal to the source and the source as it
\* was; and every step that is no move changes at most the one sketch it is
\* called on, so an update, merge or clear of a copy leaves the source as it
\* was, and the other way round.
CopyDuplicates ==
    [][/\ \A j \in DOMAIN hll :
             /\ CopyCtor(hll[j])._type = hll[j]._type
             /\ Payload(CopyCtor(hll[j])) = Payload(hll[j])
             /\ Owned(CopyCtor(hll[j])) = Owned(hll[j])
       /\ \A i \in DOMAIN hll : \A j \in DOMAIN hll \ {i} :
             hll' = [hll EXCEPT ![i] = CopyAssign(hll[i], hll[j])]
             => /\ hll'[i]._type = hll[j]._type
                /\ Payload(hll'[i]) = Payload(hll[j])
                /\ Owned(hll'[i]) = Owned(hll[j])
                /\ hll'[j] = hll[j]
       /\ \/ Cardinality(Changed) <= 1
          \/ \E i \in DOMAIN hll, j \in DOMAIN hll : AssignMove(i, j)]_vars

\* a FULL sketch and its copy, one of them updated since
CopyDuplicatesWitness ==
    /\ hll.a._type = HLL_DATA_FULL
    /\ hll.b._type = HLL_DATA_FULL
    /\ hll.a # hll.b
    /\ \E h \in Hashes : hll.b = update(hll.a, h)
    /\ CopyAssign(hll.b, hll.a) = hll.a

\* a buffer and the buffers made of it by dropping its last byte, by adding a
\* byte, and by replacing its tag with the first unknown one
Variants(buf) ==
    IF buf = << >> THEN {buf}
    ELSE {buf, SubSeq(buf, 1, Len(buf) - 1), buf \o << 0 >>,
          << 4 >> \o SubSeq(buf, 2, Len(buf))}

\* the rule of the buffers that is_valid accepts, written out
WellFormed(buf) ==
    /\ Len(buf) >= 1
    /\ buf[1] \in 0..3
    /\ buf[1] = 1 => Len(buf) >= 2 /\ Len(buf) = 2 + 8 * buf[2]
    /\ buf[1] = 2 =>
          /\ Len(buf) >= 5
          /\ Len(buf) = 5 + 3 * (buf[2] + 256 * buf[3] + 65536 * buf[4]
                                  + 16777216 * buf[5])
    /\ buf[1] = 3 => Len(buf) >= 16385

\* is_valid decides exactly the written-out rule on the input buffers and
\* their variants
InputsJudged ==
    \A k \in DOMAIN FullSlices : \A buf \in Variants(FullSlices[k]) :
        is_valid(buf) <=> WellFormed(buf)

\* C13: is_valid accepts a buffer exactly when its tag is one of 0..3 and its
\* length fits the tag (tag 0: at least 1 byte; tag 1: 2 + 8 * count bytes;
\* tag 2: 5 + 3 * count bytes; tag 3: at least 16385 bytes), and rejects
\* every other buffer, the empty one included; the serialized form of every
\* sketch is accepted.
ValidRule ==
    /\ InputsJudged
    /\ ~is_valid(<< >>)
    /\ \A i \in DOMAIN hll :
          Then(serialize(hll[i]), LAMBDA bytes :
               /\ is_valid(bytes)
               /\ \A buf \in Variants(bytes) :
                     is_valid(buf) <=> WellFormed(buf))

\* a sketch whose serialized form carries tag 3: the form is accepted, and
\* rejected once its last byte is dropped
ValidRuleWitness ==
    /\ hll.a._type = HLL_DATA_FULL
    /\ Then(serialize(hll.a), LAMBDA bytes :
            /\ bytes[1] = 3
            /\ Len(bytes) = 16385
            /\ is_valid(bytes)
            /\ ~is_valid(SubSeq(bytes, 1, Len(bytes) - 1)))

\* buffers with an encoding error: the rejected input slices, tag 255, a
\* sparse count of 2 over one record, and a sparse buffer whose first record
\* is good (register 5, value 3) and whose second one has index 16384
Malformed ==
    {BadSlices[k] : k \in DOMAIN BadSlices}
    \cup {<< 255 >>,
          << 2, 2, 0, 0, 0, 5, 0, 3 >>,
          << 2, 2, 0, 0, 0, 5, 0, 3, 0, 64, 1 >>}

\* C14: deserialize reports failure for a buffer with an unknown tag, with a
\* count that does not match its length, or with a sparse record whose index
\* is 16384 or more, and the sketch it was called on is afterwards as it was
\* before the call or empty: nothing of the rejected buffer is loaded.
RejectLoadsNothing ==
    \A buf \in Malformed :
        /\ ~DeserializeReturns(buf)
        /\ \A i \in DOMAIN hll :
              deserialize(hll[i], buf) \in {hll[i], EmptyHll}

\* an EXPLICIT and a FULL sketch, each as it was after the sparse buffer
\* with the good first record and the bad second one is rejected
RejectLoadsNothingWitness ==
    /\ hll.a._type = HLL_DATA_EXPLICIT
    /\ hll.b._type = HLL_DATA_FULL
    /\ is_valid(<< 2, 2, 0, 0, 0, 5, 0, 3, 0, 64, 1 >>)
    /\ ~DeserializeReturns(<< 2, 2, 0, 0, 0, 5, 0, 3, 0, 64, 1 >>)
    /\ deserialize(hll.a, << 2, 2, 0, 0, 0, 5, 0, 3, 0, 64, 1 >>) = hll.a
    /\ deserialize(hll.b, << 2, 2, 0, 0, 0, 5, 0, 3, 0, 64, 1 >>) = hll.b

\* every register of every SPARSE and FULL sketch is at most top, and so is
\* every register of the array an EXPLICIT sketch is converted to, which is
\* made of its hash values alone
RegistersUpTo(top) ==
    \A i \in DOMAIN hll :
        /\ hll[i]._type \in {HLL_DATA_SPARSE, HLL_DATA_FULL} =>
              \A r \in DOMAIN hll[i]._registers[1] :
                  hll[i]._registers[1][r] \in 0..top
        /\ hll[i]._type = HLL_DATA_EXPLICIT =>
              Then(_convert_explicit_to_register(hll[i])._registers[1],
                   LAMBDA regs : \A r \in DOMAIN regs : regs[r] \in 1..top)

WideBytes ==
    UNION {Then(deserialize(EmptyHll, Slices[k]), LAMBDA d :
                IF d._registers = << >> THEN {}
                ELSE {<< r, d._registers[1][r] >> :
                         r \in {q \in DOMAIN d._registers[1] :
                                   d._registers[1][q] > 51}}) :
           k \in DOMAIN Slices}

TrailingZeros(h) ==
    IF h \div 16384 = 0 THEN 50
    ELSE CHOOSE k \in 0..16 :
             /\ (h \div 16384) % Pow2(k) = 0
             /\ (h \div 16384) % Pow2(k + 1) # 0

\* the register array regs and the array after folding the hash value h into
\* it: only register h mod 16384 differs, it holds the greater of its old
\* value and the trailing zeros plus one, and no register is lower
FoldsOne(regs, h) ==
    Then(_update_registers(regs, h), LAMBDA new :
         /\ TrailingZeros(h) + 1 \in 1..51
         /\ Reg(new, h % 16384)
            = Max(Reg(regs, h % 16384), TrailingZeros(h) + 1)
         /\ \A r \in (DOMAIN regs \cup DOMAIN new) \ {h % 16384} :
               Reg(new, r) = Reg(regs, r)
         /\ \A r \in DOMAIN regs \cup DOMAIN new : Reg(new, r) >= Reg(regs, r)
         /\ DOMAIN new \subseteq 0..16383)

\* C18: folding a hash value h into a register array changes at most the
\* register h mod 16384, whose new value is the maximum of its old value and
\* t + 1, t the number of trailing zero bits of ((h >> 14) OR 2^50), with
\* t + 1 in 1..51; every other register is unchanged and none decreases.
FoldChangesOne ==
    \A h \in ProbeHashes :
        /\ FoldsOne(ZeroRegisters, h)
        /\ \A i \in DOMAIN hll :
              hll[i]._type \in {HLL_DATA_SPARSE, HLL_DATA_FULL} =>
                  FoldsOne(hll[i]._registers[1], h)

\* a FULL sketch whose register 5 holds 51: folding 8 * 2^14 + 5 leaves it,
\* and a sketch whose register 5 holds 2: folding the same value raises it
\* to 4
FoldChangesOneWitness ==
    /\ hll.a._type = HLL_DATA_FULL
    /\ Reg(hll.a._registers[1], 5) = 51
    /\ _update_registers(hll.a._registers[1], 131077) = hll.a._registers[1]
    /\ hll.b._type \in {HLL_DATA_SPARSE, HLL_DATA_FULL}
    /\ Reg(hll.b._registers[1], 5) = 2
    /\ Reg(_update_registers(hll.b._registers[1], 131077), 5) = 4

\* the stored hashes of the EXPLICIT sketch s, in buffer order
Stored(s) == SubSeq(s._explicit_data[1], 1, s._explicit_data_num)

\* the stored hashes of s are strictly ascending
Ascending(s) ==
    \A k \in 1..(s._explicit_data_num - 1) :
        s._explicit_data[1][k] < s._explicit_data[1][k + 1]

\* _explicit_data_insert of the hash value h into the EXPLICIT sketch s: a
\* stored value is reported as no change and leaves s; a new one is
\* reported, raises the count by one, and the buffer is ascending and is the
\* old one once h is taken out again
InsertsSorted(s, h) ==
    Then(_explicit_data_insert(s, h), LAMBDA new :
         IF h \in Elements(s)
         THEN /\ ~ExplicitInsertReturns(s, h)
              /\ new = s
         ELSE /\ ExplicitInsertReturns(s, h)
              /\ new._explicit_data_num = s._explicit_data_num + 1
              /\ Ascending(new)
              /\ Len(new._explicit_data[1]) >= new._explicit_data_num
              /\ h \in Elements(new)
              /\ SelectSeq(Stored(new), LAMBDA x : x # h) = Stored(s))

\* every EXPLICIT sketch is strictly ascending and takes every probed hash
\* value at its sorted position
ExplicitSorted ==
    \A i \in DOMAIN hll :
        hll[i]._type = HLL_DATA_EXPLICIT =>
            /\ Ascending(hll[i])
            /\ \A h \in ProbeHashes : InsertsSorted(hll[i], h)

\* buffers that is_valid and deserialize accept: the EXPLICIT layout with the
\* two values 7, 5 and with the two values 5, 5
Unordered ==
    {<< 1, 2, 7, 0, 0, 0, 0, 0, 0, 0, 5, 0, 0, 0, 0, 0, 0, 0 >>,
     << 1, 2, 5, 0, 0, 0, 0, 0, 0, 0, 5, 0, 0, 0, 0, 0, 0, 0 >>}

\* C19 as stated: every EXPLICIT sketch, the one decoded from any accepted
\* buffer included, stores its hashes strictly ascending without duplicates,
\* and an insert leaves a present value alone and puts a new one at its
\* sorted position.
AscendingFromAnyBuffer ==
    /\ ExplicitSorted
    /\ \A i \in DOMAIN hll : \A buf \in Unordered :
          (hll[i]._type = HLL_DATA_EMPTY /\ DeserializeReturns(buf))
          => Ascending(deserialize(hll[i], buf))

\* the register array that holds, for the set E of hash values, in register
\* r the greatest trailing zeros plus one of the values of E with
\* x mod 16384 = r, and zero where there is none
RegistersOf(E) ==
    Then({<< x % 16384, TrailingZeros(x) + 1 >> : x \in E}, LAMBDA P :
         [r \in {p[1] : p \in P} |->
             CHOOSE v \in {p[2] : p \in {q \in P : q[1] = r}} :
                 \A q \in P : q[1] = r => q[2] <= v])

\* update of the EXPLICIT sketch s, which holds 160 values, with the new
\* hash value h: a FULL sketch without explicit buffer whose registers are
\* those of the 161 values
UpgradesExplicit(s, h) ==
    Then(update(s, h), LAMBDA new :
         /\ new._type = HLL_DATA_FULL
         /\ new._explicit_data = << >>
         /\ new._explicit_data_num = 0
         /\ Len(new._registers) = 1
         /\ new._registers[1] = RegistersOf(Elements(s) \cup {h}))

\* update of the SPARSE sketch s with the hash value h: a FULL sketch whose
\* registers are those of s but for register h mod 16384, which holds the
\* greater of its value in s and the trailing zeros of h plus one
UpgradesSparse(s, h) ==
    Then(update(s, h), LAMBDA new :
         /\ new._type = HLL_DATA_FULL
         /\ new._explicit_data = << >>
         /\ Len(new._registers) = 1
         /\ \A r \in DOMAIN s._registers[1] \cup DOMAIN new._registers[1] :
               Reg(new._registers[1], r)
               = IF r = h % 16384
                 THEN Max(Reg(s._registers[1], r), TrailingZeros(h) + 1)
                 ELSE Reg(s._registers[1], r)
         /\ Reg(new._registers[1], h % 16384) >= TrailingZeros(h) + 1)

\* C20: update of an EXPLICIT sketch of 160 hash values with a 161st one
\* gives a FULL sketch, never a SPARSE one, without explicit buffer, whose
\* registers are those folded from the 161 values into an all-zero array
\* (a value it holds already leaves it EXPLICIT); update of a SPARSE sketch
\* gives a FULL one with the sparse values and the new hash folded in.
UpgradeKeepsSet ==
    \A i \in DOMAIN hll : \A h \in ProbeHashes :
        /\ (hll[i]._type = HLL_DATA_EXPLICIT
            /\ hll[i]._explicit_data_num = 160) =>
               IF h \in Elements(hll[i])
               THEN update(hll[i], h) = hll[i]
               ELSE UpgradesExplicit(hll[i], h)
        /\ hll[i]._type = HLL_DATA_SPARSE => UpgradesSparse(hll[i], h)

\* an EXPLICIT sketch of 160 values and the FULL sketch that its copy has
\* become by an update with a 161st value
UpgradeKeepsSetWitness ==
    \E i \in DOMAIN hll : \E j \in DOMAIN hll : \E h \in Hashes :
        /\ hll[i]._type = HLL_DATA_EXPLICIT
        /\ hll[i]._explicit_data_num = 160
        /\ h \notin Elements(hll[i])
        /\ hll[j]._type = HLL_DATA_FULL
        /\ hll[j] = update(hll[i], h)
        /\ Cardinality(DOMAIN hll[j]._registers[1]) = 161

\* the heap bytes of the payload buffers of s: 320 slots of 8 bytes for an
\* explicit buffer, 16384 bytes for a register array
HeapBytes(s) ==
    (IF s._explicit_data # << >> THEN 320 * 8 ELSE 0)
    + (IF s._registers # << >> THEN 16384 ELSE 0)

\* C21 as stated: memory_consumed returns the size of the object plus the
\* heap bytes of its payload buffers: 0 for EMPTY, the byte size of the
\* 320-slot buffer of 64-bit hashes for an explicit buffer, 16384 for a
\* register array.
MemoryIsHeapBytes ==
    \A i \in DOMAIN hll :
        /\ hll[i]._type = HLL_DATA_EMPTY =>
              memory_consumed(hll[i]) = SizeofThis
        /\ memory_consumed(hll[i]) = SizeofThis + HeapBytes(hll[i])

\* the tag of s selects its buffers: an explicit buffer exactly for EXPLICIT,
\* a register array exactly for SPARSE and FULL, neither and a count of 0
\* for EMPTY, and never both
TagSelects(s) ==
    /\ s._type \in {HLL_DATA_EMPTY, HLL_DATA_EXPLICIT, HLL_DATA_SPARSE,
                    HLL_DATA_FULL}
    /\ s._explicit_data # << >> <=> s._type = HLL_DATA_EXPLICIT
    /\ s._registers # << >> <=> s._type \in {HLL_DATA_SPARSE, HLL_DATA_FULL}
    /\ s._type = HLL_DATA_EMPTY =>
          /\ s._explicit_data = << >>
          /\ s._registers = << >>
          /\ s._explicit_data_num = 0
    /\ ~(s._explicit_data # << >> /\ s._registers # << >>)
    /\ Len(s._explicit_data) <= 1
    /\ Len(s._registers) <= 1

\* C22: after any sequence of constructors, copy and move construction and
\* assignment (self-assignment included), update, merge, clear and
\* deserialize, the explicit buffer is non-null exactly when the kind is
\* EXPLICIT, the register array exactly when it is SPARSE or FULL, both are
\* null and the count is 0 when it is EMPTY, and both are never held.
TagMatchesPayload ==
    /\ TagSelects(EmptyHll)
    /\ \A h \in Hashes : TagSelects(HashCtor(h))
    /\ \A i \in DOMAIN hll :
          /\ TagSelects(hll[i])
          /\ TagSelects(CopyCtor(hll[i]))
          /\ TagSelects(MoveCtorThis(hll[i]))
          /\ TagSelects(MoveCtorOther(hll[i]))

\* an EXPLICIT sketch beside a SPARSE one, which a move leaves EMPTY with
\* neither buffer while the EXPLICIT one takes its register array in place of
\* its explicit buffer
TagMatchesPayloadWitness ==
    /\ hll.a._type = HLL_DATA_EXPLICIT
    /\ hll.a._explicit_data # << >>
    /\ hll.a._registers = << >>
    /\ hll.b._type = HLL_DATA_SPARSE
    /\ hll.b._registers # << >>
    /\ hll.b._explicit_data = << >>
    /\ MoveAssignOther(hll.b) = EmptyHll
    /\ MoveAssignThis(hll.a, hll.b)._explicit_data = << >>
    /\ MoveAssignThis(hll.a, hll.b)._registers = hll.b._registers

\* an EXPLICIT sketch of 160 hash values, none of them a multiple of 20011
Disjoint160 ==
    [_type |-> HLL_DATA_EXPLICIT, _explicit_data_num |-> 160,
     _explicit_data |-> << << >> \o [j \in 1..160 |-> 20011 * j + 1] >>,
     _registers |-> << >>]

\* the highest slot that _explicit_data_insert(data) writes in the explicit
\* buffer of s, or -1 when it writes none
TopSlot(s, data) ==
    Then(InsertWrites(s, data), LAMBDA slots :
         IF slots = {} THEN -1
         ELSE CHOOSE w \in slots : \A v \in slots : v <= w)

\* the inserts of buf[lo], ..., buf[hi], in this order, into the explicit
\* buffer of the sketch st[1]: the sketch afterwards, and the highest slot
\* written by them or st[2], whichever is greater
RECURSIVE InsertEachTop(_, _, _, _)
InsertEachTop(st, buf, lo, hi) ==
    IF lo > hi THEN st
    ELSE IF lo = hi
    THEN << _explicit_data_insert(st[1], buf[lo]),
            Max(st[2], TopSlot(st[1], buf[lo])) >>
    ELSE LET mid == (lo + hi) \div 2
         IN  Then(InsertEachTop(st, buf, lo, mid),
                  LAMBDA left : InsertEachTop(left, buf, mid + 1, hi))

\* the highest slot that the inserts of buf[lo], ..., buf[hi] into the
\* explicit buffer of s write, or -1 when they write none
TopWrite(s, buf, lo, hi) == InsertEachTop(<< s, -1 >>, buf, lo, hi)[2]

\* the inserts of merge(s, other) for two EXPLICIT sketches, all made before
\* the cap is checked, write below the capacity of the buffer of s, the
\* highest slot written being the one of the last value of the union
MergeFits(s, other) ==
    Then(TopWrite(s, other._explicit_data[1], 1, other._explicit_data_num),
         LAMBDA top :
             /\ top < HLL_EXPLICIT_INT64_NUM_DOUBLE
             /\ top >= 0 =>
                   top = Cardinality(Elements(s) \cup Elements(other)) - 1)

\* the insert that update makes into the EXPLICIT sketch s, when it is below
\* the cap or holds h, writes below the capacity
UpdateFits(s, h) ==
    (s._explicit_data_num < HLL_EXPLICIT_INT64_NUM \/ h \in Elements(s))
    => \A w \in InsertWrites(s, h) : w < HLL_EXPLICIT_INT64_NUM_DOUBLE

\* C23 as stated: in every update and merge, the merge of two EXPLICIT
\* sketches and sketches obtained by deserialize included, every write into
\* the explicit buffer is at a slot below its capacity of 320.
NoOverflowAfterAnyBuffer ==
    /\ \A i \in DOMAIN hll :
          hll[i]._type = HLL_DATA_EXPLICIT =>
              /\ \A h \in ProbeHashes : UpdateFits(hll[i], h)
              /\ hll[i]._explicit_data_num = HLL_EXPLICIT_INT64_NUM =>
                    MergeFits(hll[i], Disjoint160)
    /\ \A i \in DOMAIN hll :
          hll[i]._type = HLL_DATA_EMPTY =>
              Then(deserialize(hll[i], ExplicitSlice(161)), LAMBDA s :
                   s._type = HLL_DATA_EXPLICIT => MergeFits(s, Disjoint160))

====
